---- MODULE Spec2Model ----
(***************************************************************************)
(* A model of go-qemu's image layer (package qemu, image.go): the Image    *)
(* descriptor, its constructors and profiles, the rendering of qemu-img    *)
(* invocations and the parsing of 'qemu-img info --output=json'.           *)
(*                                                                         *)
(* Strings are TLA+ strings (\o is Go's +, and what fmt.Sprintf's %s and   *)
(* %d append); an argument list is a sequence of strings.  A uint64 is a   *)
(* pair <<hi, lo>> of base-10^9 limbs with value hi * 10^9 + lo, since     *)
(* the sizes of the examples (10 GiB) exceed the model checker's integers. *)
(* The external tool is the environment: its exit status and output are    *)
(* parameters of the operators that model the functions calling it.        *)
(***************************************************************************)
EXTENDS Integers, Sequences, FiniteSets, TLC

VARIABLES
    img,      \* the caller's Image value
    op,       \* the last operation called
    arg,      \* its arguments
    err,      \* the error it returned (Nil: none)
    ret,      \* the other value it returned, if any
    calls,    \* the qemu-img invocations it issued, in order
    info,     \* the tool's answer to its 'info' invocation, if it made one
    disk,     \* the image file, as the external tool holds it
    nassign   \* how many fields the caller has assigned directly

vars == <<img, op, arg, err, ret, calls, info, disk, nassign>>

----------------------------------------------------------------------------
(* Constants of the package *)

ImageFormatRAW == "raw"
ImageFormatCLOOP == "cloop"
ImageFormatCOW == "cow"
ImageFormatQCOW == "qcow"
ImageFormatQCOW2 == "qcow2"
ImageFormatVDMK == "vdmk"
ImageFormatVDI == "vdi"
ImageFormatVHDX == "vhdx"
ImageFormatVPC == "vpc"

CompatLevelQCOW3 == "1.1"
CompatLevelQCOW2 == "0.10"

ImagePreallocMetadata == "metadata"
ImagePreallocFalloc == "falloc"
ImagePreallocFull == "full"

CipherAlgorithmAES256 == "aes-256"
CipherHashAlgorithmSHA256 == "sha256"
CipherFormatLUKS == "luks"
CipherFormatAES == "aes"
CipherModeXTS == "xts"
IVGenAlgPlain64 == "plain64"
IVGenHashAlgorithmSHA256 == "sha256"

\* 1 GiB = 2^30 = 1073741824 bytes, as limbs
GiB == <<1, 73741824>>

\* the geometry NewImage and NewEncryptedImage set, and Create leaves out
DefaultClusterSizeKB == 64
DefaultRefcountBits == 16
\* the geometry and the iteration times of the two profiles
SpeedRefcountBits == 64
SpeedClusterSizeKB == 1024
SpeedIterTime == 1000
SizeIterTime == 2000

Nil == ""
None == <<>>

----------------------------------------------------------------------------
(* uint64 and integer formatting *)

Limb == 10 ^ 9

\* k * u for a small k
MulU64(k, u) == <<k * u[1] + ((k * u[2]) \div Limb), (k * u[2]) % Limb>>

Digit(d) ==
    CASE d = 0 -> "0" [] d = 1 -> "1" [] d = 2 -> "2" [] d = 3 -> "3"
      [] d = 4 -> "4" [] d = 5 -> "5" [] d = 6 -> "6" [] d = 7 -> "7"
      [] d = 8 -> "8" [] d = 9 -> "9"

RECURSIVE Dec(_)
Dec(n) == IF n < 10 THEN Digit(n) ELSE Dec(n \div 10) \o Digit(n % 10)

RECURSIVE PadLimb(_)
PadLimb(s) == IF Len(s) >= 9 THEN s ELSE PadLimb("0" \o s)

\* strconv.FormatUint(u, 10)
FormatUint(u) == IF u[1] = 0 THEN Dec(u[2]) ELSE Dec(u[1]) \o PadLimb(Dec(u[2]))

\* fmt.Sprintf("%d", n) of an int64
FmtInt(n) == IF n < 0 THEN "-" \o Dec(0 - n) ELSE Dec(n)

----------------------------------------------------------------------------
(* The Image descriptor *)

\* var img Image: every field at its zero value
ZeroImage ==
    [Path |-> "", Format |-> "", Size |-> <<0, 0>>, Secret |-> "",
     BackingFile |-> "", Encrypted |-> FALSE, LazyRefcounts |-> FALSE,
     CompatLevel |-> "", RefcountBits |-> 0, ClusterSizeKB |-> 0,
     ExtendedL2 |-> FALSE, Preallocation |-> "", CipherAlgorithm |-> "",
     CipherMode |-> "", CipherFormat |-> "", CipherHashAlg |-> "",
     EncryptIterTime |-> 0, EncryptIvGenAlg |-> "",
     EncryptIvGenHashAlg |-> "", snapshots |-> <<>>]

NewImage(path, format, size) ==
    [ZeroImage EXCEPT !.Path = path, !.Format = format, !.Size = size,
                      !.ClusterSizeKB = DefaultClusterSizeKB,
                      !.RefcountBits = DefaultRefcountBits]

\* a variant that returns no image with the error
NewEncryptedImage_NoImageOnError(path, format, secret, size) ==
    IF format # ImageFormatQCOW2
    THEN [img |-> ZeroImage,
          err |-> "encrypted volumes must be of the type 'ImageFormatQCOW2'"]
    ELSE [img |-> [ZeroImage EXCEPT !.Path = path, !.Format = format,
                                    !.Size = size, !.Secret = secret,
                                    !.Encrypted = TRUE,
                                    !.ClusterSizeKB = DefaultClusterSizeKB,
                                    !.RefcountBits = DefaultRefcountBits],
          err |-> Nil]

\* the image is returned with the error, too
NewEncryptedImage(path, format, secret, size) ==
    LET i == [ZeroImage EXCEPT !.Path = path, !.Format = format,
                               !.Size = size, !.Secret = secret,
                               !.Encrypted = TRUE,
                               !.ClusterSizeKB = DefaultClusterSizeKB,
                               !.RefcountBits = DefaultRefcountBits]
    IN [img |-> i,
        err |-> IF format # ImageFormatQCOW2
                THEN "encrypted volumes must be of the type 'ImageFormatQCOW2'"
                ELSE Nil]

\* the cipher suite both profiles set on an encrypted image
CipherSuite(i, iterTime) ==
    IF i.Encrypted
    THEN [i EXCEPT !.CipherAlgorithm = CipherAlgorithmAES256,
                   !.CipherHashAlg = CipherHashAlgorithmSHA256,
                   !.CipherFormat = CipherFormatLUKS,
                   !.CipherMode = CipherModeXTS,
                   !.EncryptIvGenAlg = IVGenAlgPlain64,
                   !.EncryptIterTime = iterTime,
                   !.EncryptIvGenHashAlg = IVGenHashAlgorithmSHA256]
    ELSE i

OptimizeSpeed(i) ==
    CipherSuite([i EXCEPT !.LazyRefcounts = TRUE,
                          !.CompatLevel = CompatLevelQCOW3,
                          !.RefcountBits = SpeedRefcountBits,
                          !.ClusterSizeKB = SpeedClusterSizeKB,
                          !.ExtendedL2 = TRUE,
                          !.Preallocation = "full"],
                SpeedIterTime)

\* a variant that leaves the preallocation as it finds it
OptimizeSize_KeepsPreallocation(i) ==
    CipherSuite([i EXCEPT !.RefcountBits = DefaultRefcountBits,
                          !.ClusterSizeKB = DefaultClusterSizeKB,
                          !.ExtendedL2 = TRUE],
                SizeIterTime)

OptimizeSize(i) ==
    CipherSuite([i EXCEPT !.RefcountBits = DefaultRefcountBits,
                          !.ClusterSizeKB = DefaultClusterSizeKB,
                          !.ExtendedL2 = TRUE,
                          !.Preallocation = "metadata"],
                SizeIterTime)

----------------------------------------------------------------------------
(* Create: the rendering of 'qemu-img create' *)

\* oneLine(out): the tool's output on one line; out is its lines
RECURSIVE oneLine(_)
oneLine(out) ==
    IF out = <<>> THEN ""
    ELSE IF Len(out) = 1 THEN out[1]
    ELSE out[1] \o " " \o oneLine(Tail(out))

\* append "-o", tok when cond holds
Opt(args, cond, tok) == IF cond THEN args \o <<"-o", tok>> ELSE args

\* a variant that emits the preallocation first, before the backing file
GeometryOpts_PreallocFirst(args, i) ==
    LET a0 == IF Len(i.Preallocation) > 0
              THEN args \o <<"-o", "preallocation=" \o i.Preallocation>>
              ELSE args \o <<"-o", "preallocation=metadata">>
        a1 == Opt(a0, Len(i.BackingFile) > 0, "backing_file=" \o i.BackingFile)
        a2 == Opt(a1, Len(i.CompatLevel) > 0, "compat=" \o i.CompatLevel)
        a3 == Opt(a2, i.ClusterSizeKB # 64,
                  "cluster_size=" \o FmtInt(i.ClusterSizeKB) \o "K")
        a4 == Opt(a3, i.ExtendedL2, "extended_l2=on")
        a5 == Opt(a4, i.LazyRefcounts, "lazy_refcounts=on")
    IN Opt(a5, i.RefcountBits # 16, "refcount_bits=" \o FmtInt(i.RefcountBits))

\* a variant that compares the cluster size and the refcount bits with the
\* zero value, not with the defaults
GeometryOpts_ZeroDefaults(args, i) ==
    LET a1 == Opt(args, Len(i.BackingFile) > 0, "backing_file=" \o i.BackingFile)
        a2 == Opt(a1, Len(i.CompatLevel) > 0, "compat=" \o i.CompatLevel)
        a3 == Opt(a2, i.ClusterSizeKB # 0,
                  "cluster_size=" \o FmtInt(i.ClusterSizeKB) \o "K")
        a4 == Opt(a3, i.ExtendedL2, "extended_l2=on")
        a5 == Opt(a4, i.LazyRefcounts, "lazy_refcounts=on")
        a6 == IF Len(i.Preallocation) > 0
              THEN a5 \o <<"-o", "preallocation=" \o i.Preallocation>>
              ELSE a5 \o <<"-o", "preallocation=metadata">>
    IN Opt(a6, i.RefcountBits # 0, "refcount_bits=" \o FmtInt(i.RefcountBits))

\* the geometry options, the same in both branches of Create
GeometryOpts(args, i) ==
    LET a1 == Opt(args, Len(i.BackingFile) > 0, "backing_file=" \o i.BackingFile)
        a2 == Opt(a1, Len(i.CompatLevel) > 0, "compat=" \o i.CompatLevel)
        a3 == Opt(a2, i.ClusterSizeKB # 64,
                  "cluster_size=" \o FmtInt(i.ClusterSizeKB) \o "K")
        a4 == Opt(a3, i.ExtendedL2, "extended_l2=on")
        a5 == Opt(a4, i.LazyRefcounts, "lazy_refcounts=on")
        a6 == IF Len(i.Preallocation) > 0
              THEN a5 \o <<"-o", "preallocation=" \o i.Preallocation>>
              ELSE a5 \o <<"-o", "preallocation=metadata">>
    IN Opt(a6, i.RefcountBits # 16, "refcount_bits=" \o FmtInt(i.RefcountBits))

\* a variant that emits no encrypt.format when CipherFormat is unset
EncryptOpts_NoDefaultFormat(args, i) ==
    LET a1 == Opt(args, i.EncryptIterTime # 0,
                  "encrypt.iter-time=" \o FmtInt(i.EncryptIterTime))
        a2 == Opt(a1, Len(i.EncryptIvGenHashAlg) > 0,
                  "encrypt.ivgen-hash-alg=" \o i.EncryptIvGenHashAlg)
        a3 == Opt(a2, Len(i.EncryptIvGenAlg) > 0,
                  "encrypt.ivgen-alg=" \o i.EncryptIvGenAlg)
        a4 == Opt(a3, Len(i.CipherMode) > 0,
                  "encrypt.cipher-mode=" \o i.CipherMode)
        a5 == Opt(a4, Len(i.CipherAlgorithm) > 0,
                  "encrypt.cipher-alg=" \o i.CipherAlgorithm)
        a6 == Opt(a5, Len(i.CipherHashAlg) > 0,
                  "encrypt.hash-alg=" \o i.CipherHashAlg)
    IN Opt(a6, Len(i.CipherFormat) > 0, "encrypt.format=" \o i.CipherFormat)

\* the encryption options that follow the geometry options
EncryptOpts(args, i) ==
    LET a1 == Opt(args, i.EncryptIterTime # 0,
                  "encrypt.iter-time=" \o FmtInt(i.EncryptIterTime))
        a2 == Opt(a1, Len(i.EncryptIvGenHashAlg) > 0,
                  "encrypt.ivgen-hash-alg=" \o i.EncryptIvGenHashAlg)
        a3 == Opt(a2, Len(i.EncryptIvGenAlg) > 0,
                  "encrypt.ivgen-alg=" \o i.EncryptIvGenAlg)
        a4 == Opt(a3, Len(i.CipherMode) > 0,
                  "encrypt.cipher-mode=" \o i.CipherMode)
        a5 == Opt(a4, Len(i.CipherAlgorithm) > 0,
                  "encrypt.cipher-alg=" \o i.CipherAlgorithm)
        a6 == Opt(a5, Len(i.CipherHashAlg) > 0,
                  "encrypt.hash-alg=" \o i.CipherHashAlg)
    IN IF Len(i.CipherFormat) > 0
       THEN a6 \o <<"-o", "encrypt.format=" \o i.CipherFormat>>
       ELSE a6 \o <<"-o", "encrypt.format=luks">>

\* the arguments of a plain image's create
PlainCreateArgs(i) ==
    GeometryOpts(<<"create", "-f", i.Format>>, i)
        \o <<i.Path, FormatUint(i.Size)>>

\* a variant that emits the encryption options before the geometry options
EncryptedCreateArgs_EncryptFirst(i) ==
    GeometryOpts(
        EncryptOpts(<<"create", "--object", "secret,id=sec0,data=" \o i.Secret,
                      "-f", i.Format, "-o", "encrypt.key-secret=sec0">>, i),
        i) \o <<i.Path, FormatUint(i.Size)>>

\* the arguments of an encrypted image's create
EncryptedCreateArgs(i) ==
    EncryptOpts(
        GeometryOpts(<<"create", "--object", "secret,id=sec0,data=" \o i.Secret,
                       "-f", i.Format, "-o", "encrypt.key-secret=sec0">>, i),
        i) \o <<i.Path, FormatUint(i.Size)>>

\* a variant without the check of the format of an encrypted image
Create_NoFormatCheck(i, t) ==
    [calls |-> <<IF i.Encrypted = FALSE THEN PlainCreateArgs(i)
                 ELSE EncryptedCreateArgs(i)>>,
     err |-> IF t.rc # 0
             THEN "'qemu-img create' output: " \o oneLine(t.out)
             ELSE Nil]

\* Create, given what the tool answers (t.rc its exit status, t.out its
\* output) if it is invoked: the invocations made and the error returned
Create(i, t) ==
    IF i.Encrypted = FALSE
    THEN [calls |-> <<PlainCreateArgs(i)>>,
          err |-> IF t.rc # 0
                  THEN "'qemu-img create' output: " \o oneLine(t.out)
                  ELSE Nil]
    ELSE IF i.Format # ImageFormatQCOW2
    THEN [calls |-> <<>>, err |-> "encrypted volumes must be qcow2 format"]
    ELSE [calls |-> <<EncryptedCreateArgs(i)>>,
          err |-> IF t.rc # 0
                  THEN "'qemu-img create' output: " \o oneLine(t.out)
                  ELSE Nil]

----------------------------------------------------------------------------
(* retreiveInfos: the parsing of 'qemu-img info --output=json' *)

\* A json document of the tool is a record: valid (it unmarshals into
\* imgInfo), format, size ("virtual-size"), encrypted ("true", "false" or
\* "absent") and snapshots, a sequence of records with id (a string, here
\* the sequence of its characters), name and the four time fields.

DigitValue(c) ==
    CASE c = "0" -> 0 [] c = "1" -> 1 [] c = "2" -> 2 [] c = "3" -> 3
      [] c = "4" -> 4 [] c = "5" -> 5 [] c = "6" -> 6 [] c = "7" -> 7
      [] c = "8" -> 8 [] c = "9" -> 9 [] OTHER -> 0 - 1

RECURSIVE DigitsValue(_, _)
DigitsValue(s, acc) ==
    IF s = <<>> THEN acc ELSE DigitsValue(Tail(s), acc * 10 + DigitValue(s[1]))

\* strconv.Atoi of a string short enough not to overflow: an optional sign,
\* then at least one character, all of them digits
Atoi(s) ==
    LET signed == s # <<>> /\ s[1] \in {"+", "-"}
        digits == IF signed THEN Tail(s) ELSE s
    IN IF digits = <<>> \/ \E k \in DOMAIN digits : DigitValue(digits[k]) < 0
       THEN [n |-> 0, ok |-> FALSE]
       ELSE [n |-> IF signed /\ s[1] = "-" THEN 0 - DigitsValue(digits, 0)
                   ELSE DigitsValue(digits, 0),
             ok |-> TRUE]

\* time.Unix(sec, nsec): nsec outside [0, 10^9) is carried into sec
Unix(sec, nsec) == <<sec + (nsec \div Limb), nsec % Limb>>

\* the zero time.Time
ZeroTime == <<>>

\* var s Snapshot
ZeroSnapshot == [ID |-> 0, Name |-> "", Date |-> ZeroTime, VMClock |-> ZeroTime]

\* json.Unmarshal(out, &info): an absent "encrypted" leaves false
Unmarshal(doc) ==
    [err |-> ~doc.valid,
     Format |-> doc.format,
     Size |-> doc.size,
     Encrypted |-> (doc.encrypted = "true"),
     Snapshots |-> doc.snapshots]

\* the loop over info.Snapshots: an entry whose id Atoi rejects is skipped
RECURSIVE ParseSnapshots(_)
ParseSnapshots(raw) ==
    IF raw = <<>> THEN <<>>
    ELSE LET snap == raw[1]
             id == Atoi(snap.id)
         IN IF ~id.ok THEN ParseSnapshots(Tail(raw))
            ELSE <<[ID |-> id.n, Name |-> snap.name,
                    Date |-> Unix(snap.dateSec, snap.dateNsec),
                    VMClock |-> Unix(snap.clockSec, snap.clockNsec)]>>
                     \o ParseSnapshots(Tail(raw))

\* the invocation retreiveInfos makes
InfoArgs(i) == <<"info", "--output=json", i.Path>>

\* a variant that takes the tool's word for the encryption
retreiveInfos_TrustsReport(i, t) ==
    IF t.rc # 0
    THEN [img |-> i, err |-> "'qemu-img info' output: " \o oneLine(t.out)]
    ELSE LET parsed == Unmarshal(t.doc) IN
         IF parsed.err
         THEN [img |-> i, err |-> "'qemu-img info' invalid json output"]
         ELSE [img |-> [i EXCEPT !.Format = parsed.Format,
                                 !.Size = parsed.Size,
                                 !.Encrypted = parsed.Encrypted,
                                 !.snapshots = ParseSnapshots(parsed.Snapshots)],
               err |-> Nil]

\* a variant that gives up on the list at the first id Atoi rejects
retreiveInfos_StopsAtBadId(i, t) ==
    IF t.rc # 0
    THEN [img |-> i, err |-> "'qemu-img info' output: " \o oneLine(t.out)]
    ELSE LET parsed == Unmarshal(t.doc)
             raw == parsed.Snapshots
             bad == {k \in DOMAIN raw : ~Atoi(raw[k].id).ok}
             upto == IF bad = {} THEN Len(raw)
                     ELSE (CHOOSE k \in bad : \A j \in bad : k <= j) - 1
         IN
         IF parsed.err
         THEN [img |-> i, err |-> "'qemu-img info' invalid json output"]
         ELSE [img |-> [i EXCEPT !.Format = parsed.Format,
                                 !.Size = parsed.Size,
                                 !.Encrypted = IF i.Secret # "" THEN TRUE
                                               ELSE parsed.Encrypted,
                                 !.snapshots = ParseSnapshots(SubSeq(raw, 1, upto))],
               err |-> Nil]

\* retreiveInfos on the image i, given the tool's answer t (exit status,
\* output, and the document the output is when it is json): the image as
\* the call leaves it, and the error
retreiveInfos(i, t) ==
    IF t.rc # 0
    THEN [img |-> i, err |-> "'qemu-img info' output: " \o oneLine(t.out)]
    ELSE LET parsed == Unmarshal(t.doc) IN
         IF parsed.err
         THEN [img |-> i, err |-> "'qemu-img info' invalid json output"]
         ELSE [img |-> [i EXCEPT !.Format = parsed.Format,
                                 !.Size = parsed.Size,
                                 !.Encrypted = IF i.Secret # "" THEN TRUE
                                               ELSE parsed.Encrypted,
                                 !.snapshots = ParseSnapshots(parsed.Snapshots)],
               err |-> Nil]

\* OpenImage(path), given whether the path exists and the tool's answer
OpenImage(path, exists, t) ==
    IF ~exists
    THEN [img |-> ZeroImage, err |-> "stat: no such file or directory",
          calls |-> <<>>]
    ELSE LET i == [ZeroImage EXCEPT !.Path = path]
             r == retreiveInfos(i, t)
         IN [img |-> r.img,
             err |-> IF r.err # Nil THEN r.err
                     ELSE IF r.img.Encrypted
                     THEN "image is encrypted but secret was not provided"
                     ELSE Nil,
             calls |-> <<InfoArgs(i)>>]

\* OpenEncryptedImage(path, secret), likewise
OpenEncryptedImage(path, secret, exists, t) ==
    IF ~exists
    THEN [img |-> ZeroImage, err |-> "stat: no such file or directory",
          calls |-> <<>>]
    ELSE LET i == [ZeroImage EXCEPT !.Path = path, !.Encrypted = TRUE,
                                    !.Secret = secret]
             r == retreiveInfos(i, t)
         IN [img |-> r.img,
             err |-> IF r.err # Nil THEN r.err
                     ELSE IF secret = ""
                     THEN "cannot open encrypted image without secret"
                     ELSE IF ~r.img.Encrypted THEN "image is not encrypted"
                     ELSE Nil,
             calls |-> <<InfoArgs(i)>>]

\* a variant that asks the tool and then returns the list the caller's
\* image already held
Snapshots_FromCache(i, t) ==
    LET r == retreiveInfos(i, t) IN
    IF r.err # Nil
    THEN [list |-> <<>>, err |-> r.err, calls |-> <<InfoArgs(i)>>]
    ELSE [list |-> i.snapshots, err |-> Nil, calls |-> <<InfoArgs(i)>>]

\* Snapshots() has a value receiver: retreiveInfos fills a copy of the
\* image, and the caller's image, its snapshots field too, stays as it is
Snapshots(i, t) ==
    LET r == retreiveInfos(i, t) IN
    IF r.err # Nil
    THEN [list |-> <<>>, err |-> r.err, calls |-> <<InfoArgs(i)>>]
    ELSE [list |-> r.img.snapshots, err |-> Nil, calls |-> <<InfoArgs(i)>>]

----------------------------------------------------------------------------
(* The snapshot operations and Rebase *)

\* a variant that takes the presence of a secret, not the Encrypted flag,
\* as the sign of an encrypted image
SnapshotArgs_BySecret(i, flag, name) ==
    IF i.Secret = ""
    THEN <<"snapshot", flag, name, i.Path>>
    ELSE <<"snapshot", "--object", "secret,id=sec0,data=" \o i.Secret,
           "--image-opts", flag, name,
           "encrypt.format=luks,encrypt.key-secret=sec0,file.filename=" \o i.Path>>

\* the arguments of 'qemu-img snapshot <flag> <name>' for the image i
SnapshotArgs(i, flag, name) ==
    IF i.Encrypted = FALSE
    THEN <<"snapshot", flag, name, i.Path>>
    ELSE <<"snapshot", "--object", "secret,id=sec0,data=" \o i.Secret,
           "--image-opts", flag, name,
           "encrypt.format=luks,encrypt.key-secret=sec0,file.filename=" \o i.Path>>

\* a variant of the lookup in which the last match wins
RECURSIVE FindByName_LastMatch(_, _)
FindByName_LastMatch(snaps, name) ==
    IF snaps = <<>> THEN [snap |-> ZeroSnapshot, exists |-> FALSE]
    ELSE IF snaps[Len(snaps)].Name = name
    THEN [snap |-> snaps[Len(snaps)], exists |-> TRUE]
    ELSE FindByName_LastMatch(SubSeq(snaps, 1, Len(snaps) - 1), name)

\* the loop of CreateSnapshot over the refreshed list: it stops at the
\* first snapshot of that name
RECURSIVE FindByName(_, _)
FindByName(snaps, name) ==
    IF snaps = <<>> THEN [snap |-> ZeroSnapshot, exists |-> FALSE]
    ELSE IF snaps[1].Name = name THEN [snap |-> snaps[1], exists |-> TRUE]
    ELSE FindByName(Tail(snaps), name)

\* a variant that runs 'snapshot -c' a second time when the first fails
CreateSnapshot_RetriesOnFailure(i, name, t1, t2) ==
    IF t1.rc # 0
    THEN [snap |-> ZeroSnapshot,
          err |-> "'qemu-img snapshot' output: " \o oneLine(t1.out),
          calls |-> <<SnapshotArgs(i, "-c", name), SnapshotArgs(i, "-c", name)>>]
    ELSE LET r == Snapshots(i, t2)
             found == FindByName(r.list, name)
         IN [snap |-> IF r.err # Nil THEN ZeroSnapshot ELSE found.snap,
             err |-> IF r.err # Nil THEN r.err
                     ELSE IF found.exists THEN Nil
                     ELSE "couldn't find newly created snapshot",
             calls |-> <<SnapshotArgs(i, "-c", name)>> \o r.calls]

\* CreateSnapshot(name), given the tool's answers to 'snapshot -c' (t1) and
\* to the 'info' of Snapshots() (t2)
CreateSnapshot(i, name, t1, t2) ==
    IF t1.rc # 0
    THEN [snap |-> ZeroSnapshot,
          err |-> "'qemu-img snapshot' output: " \o oneLine(t1.out),
          calls |-> <<SnapshotArgs(i, "-c", name)>>]
    ELSE LET r == Snapshots(i, t2)
             found == FindByName(r.list, name)
         IN [snap |-> IF r.err # Nil THEN ZeroSnapshot ELSE found.snap,
             err |-> IF r.err # Nil THEN r.err
                     ELSE IF found.exists THEN Nil
                     ELSE "couldn't find newly created snapshot",
             calls |-> <<SnapshotArgs(i, "-c", name)>> \o r.calls]

RestoreSnapshot(i, name, t) ==
    [err |-> IF t.rc # 0
             THEN "'qemu-img snapshot' output: " \o oneLine(t.out)
             ELSE Nil,
     calls |-> <<SnapshotArgs(i, "-a", name)>>]

DeleteSnapshot(i, name, t) ==
    [err |-> IF t.rc # 0
             THEN "'qemu-img snapshot' output: " \o oneLine(t.out)
             ELSE Nil,
     calls |-> <<SnapshotArgs(i, "-d", name)>>]

\* a variant that records the backing file only when the tool succeeded
Rebase_RollsBackOnError(i, backingFile, t) ==
    [img |-> IF t.rc # 0 THEN i ELSE [i EXCEPT !.BackingFile = backingFile],
     err |-> IF t.rc # 0
             THEN "'qemu-img rebase' output: " \o oneLine(t.out)
             ELSE Nil,
     calls |-> <<<<"rebase", "-b", backingFile, i.Path>>>>]

\* Rebase(backingFile): the field is set before the tool runs
Rebase(i, backingFile, t) ==
    [img |-> [i EXCEPT !.BackingFile = backingFile],
     err |-> IF t.rc # 0
             THEN "'qemu-img rebase' output: " \o oneLine(t.out)
             ELSE Nil,
     calls |-> <<<<"rebase", "-b", backingFile, i.Path>>>>]

----------------------------------------------------------------------------
(* The environment: the image files and the external tool *)

\* A file: whether it exists, its format, size and encryption, its backing
\* file, and its snapshots as 'info' lists them
NoFile ==
    [exists |-> FALSE, format |-> "", size |-> <<0, 0>>, encrypted |-> FALSE,
     backing |-> "", snaps |-> <<>>]

\* what 'qemu-img create' leaves at the image's path when it succeeds
CreatedFile(i) ==
    [exists |-> TRUE, format |-> i.Format, size |-> i.Size,
     encrypted |-> i.Encrypted, backing |-> i.BackingFile, snaps |-> <<>>]

\* the tool's answers: exit status 0, or a failure with its diagnostic
ToolOk == [rc |-> 0, out |-> <<>>]
ToolFailed == [rc |-> 1, out |-> <<"qemu-img:", "error">>]
ToolAnswers == {ToolOk, ToolFailed}

\* the answers to 'info': a failure, an output that is no json, or the
\* document of the file.  reports is how the tool words the encryption of
\* a file that is not encrypted: it leaves "encrypted" out ("absent"), as
\* qemu-img does, or says "false"
InfoFailed == [rc |-> 1, out |-> <<"qemu-img:", "error">>, doc |-> None]
NoDoc ==
    [valid |-> FALSE, format |-> "", size |-> <<0, 0>>, encrypted |-> "absent",
     snapshots |-> <<>>]
InfoGarbled == [rc |-> 0, out |-> <<"WARNING">>, doc |-> NoDoc]
InfoDocs(file, reports) ==
    {[valid |-> TRUE, format |-> file.format, size |-> file.size,
      encrypted |-> e, snapshots |-> file.snaps] :
         e \in IF file.encrypted THEN {"true"} ELSE reports}
InfoAnswersAs(file, reports) ==
    IF ~file.exists THEN {InfoFailed}
    ELSE {InfoFailed, InfoGarbled}
             \cup {[rc |-> 0, out |-> <<>>, doc |-> d] : d \in InfoDocs(file, reports)}
InfoAnswers(file) == InfoAnswersAs(file, {"absent"})
AnyInfoAnswers(file) == InfoAnswersAs(file, {"absent", "false"})

\* a snapshot as 'info' lists it
RawSnapshot(id, name) ==
    [id |-> id, name |-> name, dateSec |-> 1600000000, dateNsec |-> 250,
     clockSec |-> 90, clockNsec |-> 0]

\* the file after 'snapshot -c name' gave the new snapshot the id
WithSnapshot(file, id, name) ==
    [file EXCEPT !.snaps = Append(@, RawSnapshot(id, name))]

\* the file after 'snapshot -d name': without its first snapshot of that name
WithoutSnapshot(file, name) ==
    LET hits == {k \in DOMAIN file.snaps : file.snaps[k].name = name}
        k == CHOOSE h \in hits : \A j \in hits : h <= j
    IN IF hits = {} THEN file
       ELSE [file EXCEPT !.snaps = SubSeq(@, 1, k - 1) \o SubSeq(@, k + 1, Len(@))]

HasSnapshot(file, name) == \E k \in DOMAIN file.snaps : file.snaps[k].name = name

----------------------------------------------------------------------------
(* The inputs *)

Formats == {ImageFormatQCOW2, ImageFormatRAW, ImageFormatQCOW}
Sizes == {MulU64(10, GiB), MulU64(5, GiB)}
Secrets == {"", "secret1"}
CfgPaths == {"test.qcow2", "enc.qcow2"}
BackingPaths == {"base.qcow2"}
AllPaths == CfgPaths \cup BackingPaths

\* how many fields the caller assigns directly on one descriptor
MaxAssign == 1

\* how many snapshots the file of the snapshot operations holds
MaxSnaps == 2

\* how many snapshots a parsed document lists
MaxDocSnaps == 3

\* the image the snapshot operations work on
SnapPath == "test.qcow2"
SnapNames == {"snap1", "snap2"}

\* the ids the tool gives its snapshots, as 'info' prints them
ToolIds == {<<"1">>, <<"2">>, <<"x">>}
\* the ids tried in the parsing of a document
IdStrings == {<<"1", "2">>, <<"x">>, <<>>, <<"-", "3">>, <<"1", "a">>}

\* the sequences over S of length at most n
SeqUpTo(S, n) == UNION {[1..k -> S] : k \in 0..n}

\* the snapshots the parsed documents list
DocSnapshots ==
    {RawSnapshot(id, "snap1") : id \in IdStrings}
        \cup {RawSnapshot(<<"1">>, "snap2")}

\* a file of the parsed documents
DocFile(encrypted, snaps) ==
    [exists |-> TRUE, format |-> ImageFormatQCOW2, size |-> MulU64(10, GiB),
     encrypted |-> encrypted, backing |-> "", snaps |-> snaps]

\* the files whose 'info' is parsed: no file, the plain files of every
\* snapshot list, and the encrypted files of the lists of one snapshot
Files ==
    {NoFile}
        \cup {DocFile(FALSE, l) : l \in SeqUpTo(DocSnapshots, MaxDocSnaps)}
        \cup {DocFile(TRUE, l) : l \in SeqUpTo(DocSnapshots, 1)}

\* the exported fields a caller sets, and the values tried for each
FieldValues ==
    [Secret |-> Secrets,
     BackingFile |-> {""} \cup BackingPaths,
     LazyRefcounts |-> BOOLEAN,
     CompatLevel |-> {"", CompatLevelQCOW3, CompatLevelQCOW2},
     RefcountBits |-> {DefaultRefcountBits, SpeedRefcountBits},
     ClusterSizeKB |-> {DefaultClusterSizeKB, SpeedClusterSizeKB},
     ExtendedL2 |-> BOOLEAN,
     Preallocation |-> {"", ImagePreallocMetadata, ImagePreallocFalloc,
                        ImagePreallocFull},
     CipherAlgorithm |-> {"", CipherAlgorithmAES256},
     CipherMode |-> {"", CipherModeXTS},
     CipherFormat |-> {"", CipherFormatLUKS, CipherFormatAES},
     CipherHashAlg |-> {"", CipherHashAlgorithmSHA256},
     EncryptIterTime |-> {0, SpeedIterTime, SizeIterTime},
     EncryptIvGenAlg |-> {"", IVGenAlgPlain64},
     EncryptIvGenHashAlg |-> {"", IVGenHashAlgorithmSHA256}]

Fields == DOMAIN FieldValues

----------------------------------------------------------------------------
(* The operations on a descriptor, as steps of the caller *)

Init ==
    /\ img = ZeroImage
    /\ op = "none"
    /\ arg = None
    /\ err = Nil
    /\ ret = None
    /\ calls = <<>>
    /\ info = None
    /\ disk = [p \in AllPaths |-> NoFile]
    /\ nassign = 0

NewImageStep(path, format, size) ==
    /\ img' = NewImage(path, format, size)
    /\ op' = "NewImage"
    /\ arg' = <<path, format, size>>
    /\ err' = Nil
    /\ ret' = None
    /\ calls' = <<>>
    /\ info' = None
    /\ nassign' = 0
    /\ UNCHANGED disk

NewEncryptedImageStep(path, format, secret, size) ==
    LET r == NewEncryptedImage(path, format, secret, size) IN
    /\ img' = r.img
    /\ op' = "NewEncryptedImage"
    /\ arg' = <<path, format, secret, size>>
    /\ err' = r.err
    /\ ret' = None
    /\ calls' = <<>>
    /\ info' = None
    /\ nassign' = 0
    /\ UNCHANGED disk

\* img.<f> = v in the caller's code
AssignStep(f, v) ==
    /\ op # "none"
    /\ nassign < MaxAssign
    /\ img[f] # v
    /\ img' = [img EXCEPT ![f] = v]
    /\ op' = "Assign"
    /\ arg' = <<f>>
    /\ err' = Nil
    /\ ret' = None
    /\ calls' = <<>>
    /\ info' = None
    /\ nassign' = nassign + 1
    /\ UNCHANGED disk

\* img = img.OptimizeSpeed()
OptimizeSpeedStep ==
    /\ op # "none"
    /\ img' = OptimizeSpeed(img)
    /\ op' = "OptimizeSpeed"
    /\ arg' = None
    /\ err' = Nil
    /\ ret' = None
    /\ calls' = <<>>
    /\ info' = None
    /\ UNCHANGED <<disk, nassign>>

\* img = img.OptimizeSize()
OptimizeSizeStep ==
    /\ op # "none"
    /\ img' = OptimizeSize(img)
    /\ op' = "OptimizeSize"
    /\ arg' = None
    /\ err' = Nil
    /\ ret' = None
    /\ calls' = <<>>
    /\ info' = None
    /\ UNCHANGED <<disk, nassign>>

\* err = img.Create(): the tool runs when Create invokes it, and a
\* successful run leaves the new file at the image's path
CreateStep(t) ==
    LET r == Create(img, t) IN
    /\ op # "none"
    /\ op' = "Create"
    /\ arg' = None
    /\ err' = r.err
    /\ ret' = None
    /\ calls' = r.calls
    /\ info' = None
    /\ disk' = IF r.calls # <<>> /\ t.rc = 0 /\ img.Path \in DOMAIN disk
               THEN [disk EXCEPT ![img.Path] = CreatedFile(img)]
               ELSE disk
    /\ UNCHANGED <<img, nassign>>

\* the file at a path
FileAt(path) == IF path \in DOMAIN disk THEN disk[path] ELSE NoFile

\* img, err = OpenImage(path): os.Stat sees the file, the tool reads it
OpenImageStep(path, t) ==
    LET r == OpenImage(path, FileAt(path).exists, t) IN
    /\ t \in AnyInfoAnswers(FileAt(path))
    /\ img' = r.img
    /\ op' = "OpenImage"
    /\ arg' = <<path>>
    /\ err' = r.err
    /\ ret' = None
    /\ calls' = r.calls
    /\ info' = IF r.calls # <<>> THEN t ELSE None
    /\ nassign' = 0
    /\ UNCHANGED disk

\* img, err = OpenEncryptedImage(path, secret)
OpenEncryptedImageStep(path, secret, t) ==
    LET r == OpenEncryptedImage(path, secret, FileAt(path).exists, t) IN
    /\ t \in AnyInfoAnswers(FileAt(path))
    /\ img' = r.img
    /\ op' = "OpenEncryptedImage"
    /\ arg' = <<path, secret>>
    /\ err' = r.err
    /\ ret' = None
    /\ calls' = r.calls
    /\ info' = IF r.calls # <<>> THEN t ELSE None
    /\ nassign' = 0
    /\ UNCHANGED disk

\* snaps, err = img.Snapshots()
SnapshotsStep(t) ==
    LET r == Snapshots(img, t) IN
    /\ op # "none"
    /\ t \in AnyInfoAnswers(FileAt(img.Path))
    /\ op' = "Snapshots"
    /\ arg' = None
    /\ err' = r.err
    /\ ret' = r.list
    /\ calls' = r.calls
    /\ info' = t
    /\ UNCHANGED <<img, disk, nassign>>

\* snap, err = img.CreateSnapshot(name): when 'snapshot -c' succeeds the
\* file holds the new snapshot, under the id the tool gave it (one no
\* snapshot of the file has), before Snapshots() asks for the list
CreateSnapshotStep(name, id, t1, t2) ==
    LET file == FileAt(img.Path)
        after == IF t1.rc = 0 THEN WithSnapshot(file, id, name) ELSE file
        r == CreateSnapshot(img, name, t1, t2)
    IN
    /\ op # "none"
    /\ t1.rc = 0 =>
           /\ file.exists
           /\ Len(file.snaps) < MaxSnaps
           /\ \A k \in DOMAIN file.snaps : file.snaps[k].id # id
    /\ t2 \in AnyInfoAnswers(after)
    /\ op' = "CreateSnapshot"
    /\ arg' = <<name>>
    /\ err' = r.err
    /\ ret' = r.snap
    /\ calls' = r.calls
    /\ info' = IF Len(r.calls) = 2 THEN t2 ELSE None
    /\ disk' = IF t1.rc = 0 THEN [disk EXCEPT ![img.Path] = after] ELSE disk
    /\ UNCHANGED <<img, nassign>>

\* err = img.RestoreSnapshot(name): the tool finds the snapshot or fails
RestoreSnapshotStep(name, t) ==
    LET r == RestoreSnapshot(img, name, t) IN
    /\ op # "none"
    /\ t.rc = 0 => HasSnapshot(FileAt(img.Path), name)
    /\ op' = "RestoreSnapshot"
    /\ arg' = <<name>>
    /\ err' = r.err
    /\ ret' = None
    /\ calls' = r.calls
    /\ info' = None
    /\ UNCHANGED <<img, disk, nassign>>

\* err = img.DeleteSnapshot(name)
DeleteSnapshotStep(name, t) ==
    LET r == DeleteSnapshot(img, name, t) IN
    /\ op # "none"
    /\ t.rc = 0 => HasSnapshot(FileAt(img.Path), name)
    /\ op' = "DeleteSnapshot"
    /\ arg' = <<name>>
    /\ err' = r.err
    /\ ret' = None
    /\ calls' = r.calls
    /\ info' = None
    /\ disk' = IF t.rc = 0
               THEN [disk EXCEPT ![img.Path] = WithoutSnapshot(@, name)]
               ELSE disk
    /\ UNCHANGED <<img, nassign>>

\* err = img.Rebase(backingFile)
RebaseStep(backingFile, t) ==
    LET r == Rebase(img, backingFile, t) IN
    /\ op # "none"
    /\ t.rc = 0 => FileAt(img.Path).exists
    /\ img' = r.img
    /\ op' = "Rebase"
    /\ arg' = <<backingFile>>
    /\ err' = r.err
    /\ ret' = None
    /\ calls' = r.calls
    /\ info' = None
    /\ disk' = IF t.rc = 0
               THEN [disk EXCEPT ![img.Path].backing = backingFile]
               ELSE disk
    /\ UNCHANGED nassign

\* The life of an image the program creates: it is constructed and
\* created, and its snapshots are taken, listed, restored and deleted.
Next ==
    \/ NewImageStep(SnapPath, ImageFormatQCOW2, MulU64(10, GiB))
    \/ NewEncryptedImageStep(SnapPath, ImageFormatQCOW2, "secret1", MulU64(10, GiB))
    \/ \E t \in ToolAnswers : CreateStep(t)
    \/ \E t \in InfoAnswers(FileAt(img.Path)) : SnapshotsStep(t)
    \/ \E n \in SnapNames, id \in ToolIds, t1 \in ToolAnswers :
           \E t2 \in InfoAnswers(IF t1.rc = 0
                                 THEN WithSnapshot(FileAt(img.Path), id, n)
                                 ELSE FileAt(img.Path)) :
               CreateSnapshotStep(n, id, t1, t2)
    \/ \E n \in SnapNames, t \in ToolAnswers : RestoreSnapshotStep(n, t)
    \/ \E n \in SnapNames, t \in ToolAnswers : DeleteSnapshotStep(n, t)
    \/ \E b \in BackingPaths, t \in ToolAnswers : RebaseStep(b, t)

Spec == Init /\ [][Next]_vars

\* SpecInfo parses the 'info' of every file of Files: the file is there
\* from the start, and the image is opened and its snapshots listed.
InitInfo ==
    /\ img = ZeroImage
    /\ op = "none"
    /\ arg = None
    /\ err = Nil
    /\ ret = None
    /\ calls = <<>>
    /\ info = None
    /\ disk \in {[[p \in AllPaths |-> NoFile] EXCEPT ![SnapPath] = f] : f \in Files}
    /\ nassign = 0

InfoNext ==
    \/ \E t \in AnyInfoAnswers(FileAt(SnapPath)) : OpenImageStep(SnapPath, t)
    \/ \E k \in Secrets, t \in AnyInfoAnswers(FileAt(SnapPath)) :
           OpenEncryptedImageStep(SnapPath, k, t)
    \/ \E t \in AnyInfoAnswers(FileAt(img.Path)) : SnapshotsStep(t)

SpecInfo == InitInfo /\ [][InfoNext]_vars

\* SpecConfig follows one descriptor from its construction to its Create:
\* the configuration steps, then the rendering.
Building == op # "Create"

ConfigNext ==
    \/ \E p \in CfgPaths, f \in Formats, s \in Sizes :
           Building /\ NewImageStep(p, f, s)
    \/ \E p \in CfgPaths, f \in Formats, k \in Secrets, s \in Sizes :
           Building /\ NewEncryptedImageStep(p, f, k, s)
    \/ \E f \in Fields : \E v \in FieldValues[f] : Building /\ AssignStep(f, v)
    \/ Building /\ OptimizeSpeedStep
    \/ Building /\ OptimizeSizeStep
    \/ \E t \in ToolAnswers : Building /\ CreateStep(t)

SpecConfig == Init /\ [][ConfigNext]_vars

\* SpecOps runs every operation against one file, through descriptors that
\* are constructed or opened and whose Secret the caller may set (Encrypted
\* is documented as read-only); the tool numbers the snapshots of the file
\* with the ids of OpsIds.
OpsNames == {"snap1"}
OpsIds == {<<"1">>, <<"x">>}

OpsNext ==
    \/ NewImageStep(SnapPath, ImageFormatQCOW2, MulU64(10, GiB))
    \/ NewEncryptedImageStep(SnapPath, ImageFormatQCOW2, "secret1", MulU64(10, GiB))
    \/ \E v \in Secrets : AssignStep("Secret", v)
    \/ \E t \in ToolAnswers : CreateStep(t)
    \/ \E t \in InfoAnswers(FileAt(SnapPath)) : OpenImageStep(SnapPath, t)
    \/ \E k \in Secrets, t \in InfoAnswers(FileAt(SnapPath)) :
           OpenEncryptedImageStep(SnapPath, k, t)
    \/ \E t \in InfoAnswers(FileAt(img.Path)) : SnapshotsStep(t)
    \/ \E n \in OpsNames, id \in OpsIds, t1 \in ToolAnswers :
           \E t2 \in InfoAnswers(IF t1.rc = 0
                                 THEN WithSnapshot(FileAt(img.Path), id, n)
                                 ELSE FileAt(img.Path)) :
               CreateSnapshotStep(n, id, t1, t2)
    \/ \E n \in OpsNames, t \in ToolAnswers : RestoreSnapshotStep(n, t)
    \/ \E n \in OpsNames, t \in ToolAnswers : DeleteSnapshotStep(n, t)
    \/ \E b \in BackingPaths, t \in ToolAnswers : RebaseStep(b, t)

SpecOps == Init /\ [][OpsNext]_vars

----------------------------------------------------------------------------
(* Properties of the constructors, the profiles and Create *)

\* the arguments of the create invocation of the last operation
CreateCall == calls[1]

\* the positions of the options of the argument list a that are in toks
OptPositions(a, toks) == {k \in 2..Len(a) : a[k - 1] = "-o" /\ a[k] \in toks}

\* C1: NewEncryptedImage returns, with or without an error, an image that
\* has Encrypted = true, the given secret, path, format and size; the error
\* is non-nil for every format other than qcow2 and nil for qcow2.
C1_EncryptedImageReturnedWithError ==
    op = "NewEncryptedImage" =>
        /\ img.Path = arg[1]
        /\ img.Format = arg[2]
        /\ img.Secret = arg[3]
        /\ img.Size = arg[4]
        /\ img.Encrypted = TRUE
        /\ (arg[2] # "qcow2" => err # Nil)
        /\ (arg[2] = "qcow2" => err = Nil)

C1_Witness ==
    /\ op = "NewEncryptedImage"
    /\ arg[2] = "raw"
    /\ arg[3] = "secret1"
    /\ err # Nil
    /\ img.Encrypted
    /\ img.Secret = "secret1"

\* the descriptor is as NewImage built it
PlainUnchanged == img = NewImage(img.Path, img.Format, img.Size)

\* C2: Create of a plain descriptor as NewImage built it hands the tool
\* exactly create -f <format> -o preallocation=metadata <path> <size in
\* decimal>; for ("test.qcow2", qcow2, 10 GiB) the size is 10737418240.
C2_PlainCreateArgs ==
    (op = "Create" /\ PlainUnchanged) =>
        /\ Len(calls) = 1
        /\ Len(CreateCall) = 7
        /\ SubSeq(CreateCall, 1, 6) =
               <<"create", "-f", img.Format, "-o", "preallocation=metadata",
                 img.Path>>
        /\ (img.Size = MulU64(10, GiB) => CreateCall[7] = "10737418240")
        /\ (img.Size = MulU64(5, GiB) => CreateCall[7] = "5368709120")

C2_Witness ==
    /\ op = "Create"
    /\ PlainUnchanged
    /\ calls = << <<"create", "-f", "qcow2", "-o", "preallocation=metadata",
                    "test.qcow2", "10737418240">> >>

\* C3: Create of a descriptor with Encrypted = true and a format other than
\* qcow2 returns an error and invokes the tool with no argument list at all.
C3_EncryptedNonQcow2CreateFails ==
    (op = "Create" /\ img.Encrypted /\ img.Format # "qcow2") =>
        /\ err # Nil
        /\ calls = <<>>
        /\ \A p \in DOMAIN disk : disk[p] = NoFile

C3_Witness ==
    /\ op = "Create"
    /\ img.Encrypted
    /\ img.Format = "raw"
    /\ img.CompatLevel = "1.1"
    /\ err = "encrypted volumes must be qcow2 format"

\* the configuration fields of a descriptor
GeometryFields == {"RefcountBits", "ClusterSizeKB", "ExtendedL2", "Preallocation"}
CipherFields ==
    {"CipherAlgorithm", "CipherMode", "CipherFormat", "CipherHashAlg",
     "EncryptIterTime", "EncryptIvGenAlg", "EncryptIvGenHashAlg"}
ConfigFields == {"LazyRefcounts", "CompatLevel"} \cup GeometryFields \cup CipherFields

\* C7, as the spec states it: OptimizeSize after OptimizeSpeed equals
\* OptimizeSize alone on every configuration field.
C7_Original_SizeAfterSpeedIsSize ==
    op # "none" =>
        \A f \in ConfigFields :
            OptimizeSize(OptimizeSpeed(img))[f] = OptimizeSize(img)[f]

\* C7, amended: OptimizeSize after OptimizeSpeed equals OptimizeSize alone
\* on refcount-bits, cluster size, extended-L2, preallocation and the cipher
\* fields, and keeps the speed profile's lazy-refcounts = true and compat
\* level 1.1, which OptimizeSize does not set.
C7_SizeAfterSpeed ==
    op # "none" =>
        LET both == OptimizeSize(OptimizeSpeed(img))
            size == OptimizeSize(img)
        IN /\ \A f \in GeometryFields \cup CipherFields : both[f] = size[f]
           /\ both.RefcountBits = 16
           /\ both.ClusterSizeKB = 64
           /\ both.Preallocation = "metadata"
           /\ both.LazyRefcounts = TRUE
           /\ both.CompatLevel = "1.1"
           /\ size.LazyRefcounts = img.LazyRefcounts
           /\ size.CompatLevel = img.CompatLevel

\* OptimizeSize has followed OptimizeSpeed on a constructed descriptor
C7_Witness ==
    /\ op = "OptimizeSize"
    /\ nassign = 0
    /\ img.Encrypted
    /\ img.LazyRefcounts
    /\ img.CompatLevel = "1.1"
    /\ img.Preallocation = "metadata"
    /\ img.EncryptIterTime = 2000

\* the descriptor is as NewEncryptedImage built it, for qcow2
EncryptedUnchanged ==
    img = NewEncryptedImage(img.Path, "qcow2", img.Secret, img.Size).img

\* C8: Create of a descriptor as NewEncryptedImage(path, qcow2, secret,
\* size) built it carries --object secret,id=sec0,data=<secret>, the option
\* encrypt.key-secret=sec0, the option encrypt.format=luks exactly once and
\* no other encrypt.format, and ends with the path and the size in decimal.
C8_EncryptedCreateArgs ==
    (op = "Create" /\ EncryptedUnchanged) =>
        LET a == CreateCall
            n == Len(a)
        IN /\ Len(calls) = 1
           /\ a[1] = "create"
           /\ \E k \in 2..n :
                  a[k - 1] = "--object" /\ a[k] = "secret,id=sec0,data=" \o img.Secret
           /\ OptPositions(a, {"encrypt.key-secret=sec0"}) # {}
           /\ Cardinality(OptPositions(a, {"encrypt.format=luks"})) = 1
           /\ Cardinality({k \in 1..n : a[k] \in {"encrypt.format=luks",
                                                  "encrypt.format=aes"}}) = 1
           /\ a[n - 1] = img.Path
           /\ (img.Size = MulU64(5, GiB) => a[n] = "5368709120")
           /\ (img.Size = MulU64(10, GiB) => a[n] = "10737418240")

C8_Witness ==
    /\ op = "Create"
    /\ EncryptedUnchanged
    /\ img.Path = "enc.qcow2"
    /\ img.Secret = "secret1"
    /\ "secret,id=sec0,data=secret1" \in {CreateCall[k] : k \in 1..Len(CreateCall)}
    /\ CreateCall[Len(CreateCall)] = "5368709120"

\* the tokens of each geometry option, in the order the spec gives them
GeometryTokens ==
    << {"backing_file=base.qcow2"},
       {"compat=1.1", "compat=0.10"},
       {"cluster_size=1024K", "cluster_size=64K", "cluster_size=0K"},
       {"extended_l2=on"},
       {"lazy_refcounts=on"},
       {"preallocation=metadata", "preallocation=falloc", "preallocation=full"},
       {"refcount_bits=64", "refcount_bits=16", "refcount_bits=0"} >>

AllGeometryTokens == UNION {GeometryTokens[k] : k \in DOMAIN GeometryTokens}

\* the tokens of each encryption option, in the order the spec gives them
EncryptTokensClaimed ==
    << {"encrypt.key-secret=sec0"},
       {"encrypt.iter-time=1000", "encrypt.iter-time=2000"},
       {"encrypt.ivgen-alg=plain64"},
       {"encrypt.ivgen-hash-alg=sha256"},
       {"encrypt.cipher-mode=xts"},
       {"encrypt.cipher-alg=aes-256"},
       {"encrypt.hash-alg=sha256"},
       {"encrypt.format=luks", "encrypt.format=aes"} >>

\* the same, in the order Create emits them
EncryptTokensEmitted ==
    << {"encrypt.key-secret=sec0"},
       {"encrypt.iter-time=1000", "encrypt.iter-time=2000"},
       {"encrypt.ivgen-hash-alg=sha256"},
       {"encrypt.ivgen-alg=plain64"},
       {"encrypt.cipher-mode=xts"},
       {"encrypt.cipher-alg=aes-256"},
       {"encrypt.hash-alg=sha256"},
       {"encrypt.format=luks", "encrypt.format=aes"} >>

AllEncryptTokens == UNION {EncryptTokensClaimed[k] : k \in DOMAIN EncryptTokensClaimed}

\* the options of a, in the classes of tokens, are in the classes' order
InOrder(a, tokens) ==
    \A j, k \in DOMAIN tokens :
        j < k =>
            \A pj \in OptPositions(a, tokens[j]), pk \in OptPositions(a, tokens[k]) :
                pj < pk

\* every option of a in first precedes every option of a in second
AllBefore(a, first, second) ==
    \A p1 \in OptPositions(a, first), p2 \in OptPositions(a, second) : p1 < p2

\* C9: in every create argument list the geometry options emitted are in
\* the order backing_file, compat, cluster_size, extended_l2,
\* lazy_refcounts, preallocation, refcount_bits; exactly one preallocation
\* option is emitted, the descriptor's value or metadata when that is
\* unset; the path and then the size are the last two tokens.
C9_GeometryOrder ==
    (op = "Create" /\ calls # <<>>) =>
        LET a == CreateCall
            n == Len(a)
            prealloc == {k \in 1..n : a[k] \in GeometryTokens[6]}
        IN /\ InOrder(a, GeometryTokens)
           /\ Cardinality(prealloc) = 1
           /\ prealloc = OptPositions(a, {"preallocation=" \o
                             (IF img.Preallocation = "" THEN "metadata"
                              ELSE img.Preallocation)})
           /\ n >= 2
           /\ a[n - 1] = img.Path
           /\ a[n] \in {"10737418240", "5368709120"}
           /\ (a[n] = "10737418240") = (img.Size = MulU64(10, GiB))

\* a create with every geometry option and an overridden preallocation
C9_Witness ==
    /\ op = "Create"
    /\ calls # <<>>
    /\ \A k \in DOMAIN GeometryTokens : OptPositions(CreateCall, GeometryTokens[k]) # {}
    /\ img.Preallocation = "full"

\* C10, as the spec states it: for an encrypted qcow2 descriptor every
\* encryption option precedes every geometry option, and the encryption
\* options are in the order key-secret, iter-time, ivgen-alg,
\* ivgen-hash-alg, cipher-mode, cipher-alg, hash-alg, format.
C10_Original_EncryptionFirst ==
    (op = "Create" /\ img.Encrypted /\ calls # <<>>) =>
        /\ AllBefore(CreateCall, AllEncryptTokens, AllGeometryTokens)
        /\ InOrder(CreateCall, EncryptTokensClaimed)

\* C10, amended: for an encrypted qcow2 descriptor the key-secret option
\* precedes every geometry option, every other encryption option follows
\* every geometry option, and the encryption options are in the order
\* key-secret, iter-time, ivgen-hash-alg, ivgen-alg, cipher-mode,
\* cipher-alg, hash-alg, format (the format always emitted, luks when unset).
C10_EncryptionAroundGeometry ==
    (op = "Create" /\ img.Encrypted /\ calls # <<>>) =>
        LET a == CreateCall IN
        /\ img.Format = "qcow2"
        /\ Cardinality(OptPositions(a, {"encrypt.key-secret=sec0"})) = 1
        /\ AllBefore(a, {"encrypt.key-secret=sec0"}, AllGeometryTokens)
        /\ AllBefore(a, AllGeometryTokens,
                     AllEncryptTokens \ {"encrypt.key-secret=sec0"})
        /\ InOrder(a, EncryptTokensEmitted)
        /\ Cardinality(OptPositions(a, EncryptTokensEmitted[8])) = 1
        /\ OptPositions(a, EncryptTokensEmitted[8]) =
               OptPositions(a, {"encrypt.format=" \o
                   (IF img.CipherFormat = "" THEN "luks" ELSE img.CipherFormat)})

\* an encrypted create with every encryption option and geometry options
C10_Witness ==
    /\ op = "Create"
    /\ img.Encrypted
    /\ calls # <<>>
    /\ \A k \in DOMAIN EncryptTokensEmitted :
           OptPositions(CreateCall, EncryptTokensEmitted[k]) # {}
    /\ OptPositions(CreateCall, GeometryTokens[2]) # {}
    /\ OptPositions(CreateCall, GeometryTokens[7]) # {}

----------------------------------------------------------------------------
(* Properties of the parsing and of the snapshot lookup *)

\* the tool answered the 'info' of the last operation with a document
InfoParsed == info # None /\ info.rc = 0 /\ info.doc.valid

\* C4: after OpenImage or OpenEncryptedImage has parsed the tool's
\* document, Encrypted is true whenever the image's Secret is non-empty,
\* whatever the document says, and otherwise is what the document reports,
\* an absent field meaning false, whatever the flag was before the call.
C4_EncryptedReconciled ==
    (op \in {"OpenImage", "OpenEncryptedImage"} /\ InfoParsed) =>
        /\ img.Secret = (IF op = "OpenImage" THEN "" ELSE arg[2])
        /\ (img.Secret # "" => img.Encrypted = TRUE)
        /\ (img.Secret = "" => img.Encrypted = (info.doc.encrypted = "true"))

\* a secret is given and the document reports encrypted: false
C4_Witness ==
    /\ op = "OpenEncryptedImage"
    /\ InfoParsed
    /\ img.Secret = "secret1"
    /\ info.doc.encrypted = "false"
    /\ img.Encrypted

\* the ids that are integers, and the integers they are
IdValue == (<<"1">> :> 1) @@ (<<"2">> :> 2) @@ (<<"1", "2">> :> 12)
               @@ (<<"-", "3">> :> (0 - 3))

HasIntegerId(snap) == snap.id \in DOMAIN IdValue

\* the snapshots the list raw of a document stands for
ListedSnapshots(raw) ==
    LET kept == SelectSeq(raw, HasIntegerId) IN
    [k \in 1..Len(kept) |->
        [ID |-> IdValue[kept[k].id], Name |-> kept[k].name,
         Date |-> <<kept[k].dateSec, kept[k].dateNsec>>,
         VMClock |-> <<kept[k].clockSec, kept[k].clockNsec>>]]

\* C5: the parsed snapshot list is the subsequence of the document's
\* entries whose id is an integer, in the document's order, each with its
\* name and id; an entry with another id is dropped, and the parse does
\* not fail for it.
C5_SnapshotsParsed ==
    InfoParsed =>
        /\ op \in {"OpenImage", "OpenEncryptedImage"} =>
               /\ img.snapshots = ListedSnapshots(info.doc.snapshots)
               /\ err \in {Nil, "image is encrypted but secret was not provided",
                           "cannot open encrypted image without secret"}
        /\ op = "Snapshots" =>
               /\ ret = ListedSnapshots(info.doc.snapshots)
               /\ err = Nil

\* a document lists an integer id, another id and an integer id again
C5_Witness ==
    /\ op = "OpenImage"
    /\ InfoParsed
    /\ Len(info.doc.snapshots) = 3
    /\ info.doc.snapshots[1].id = <<"1", "2">>
    /\ info.doc.snapshots[2].id = <<"1", "a">>
    /\ info.doc.snapshots[3].name = "snap2"
    /\ Len(img.snapshots) = 2
    /\ img.snapshots[1].ID = 12
    /\ img.snapshots[2].Name = "snap2"
    /\ err = Nil

\* C6: when CreateSnapshot has run the tool and refreshed the list, it
\* returns the first snapshot of the list with the requested name, also
\* when several have it, and returns the "couldn't find newly created
\* snapshot" error exactly when none has it.
C6_FirstMatchByName ==
    (op = "CreateSnapshot" /\ InfoParsed) =>
        LET list == ListedSnapshots(info.doc.snapshots)
            hits == {k \in DOMAIN list : list[k].Name = arg[1]}
        IN /\ (err = "couldn't find newly created snapshot") = (hits = {})
           /\ hits # {} =>
                  /\ err = Nil
                  /\ \E k \in hits : /\ \A j \in hits : k <= j
                                     /\ ret = list[k]

\* two snapshots of the list have the requested name, and the first is
\* returned
C6_Witness ==
    /\ op = "CreateSnapshot"
    /\ InfoParsed
    /\ Len(info.doc.snapshots) = 2
    /\ info.doc.snapshots[1].name = arg[1]
    /\ info.doc.snapshots[2].name = arg[1]
    /\ info.doc.snapshots[1].id = <<"2">>
    /\ info.doc.snapshots[2].id = <<"1">>
    /\ err = Nil
    /\ ret.ID = 2

----------------------------------------------------------------------------
(* Properties of the snapshot operations, the Open operations and Rebase *)

\* the flag of the snapshot operation that ran last
SnapshotFlag ==
    CASE op = "CreateSnapshot" -> "-c"
      [] op = "RestoreSnapshot" -> "-a"
      [] op = "DeleteSnapshot" -> "-d"
      [] OTHER -> ""

\* C11: the invocation of a snapshot operation (create -c, restore -a,
\* delete -d) is chosen by the Encrypted flag of the descriptor alone: with
\* Encrypted false it is snapshot, the flag, the name, the path; with
\* Encrypted true it is snapshot, --object, the secret object of id sec0,
\* --image-opts, the flag, the name, and the image options that state
\* encrypt.format=luks, the key-secret sec0 and the file name.
C11_SnapshotArgsByEncrypted ==
    SnapshotFlag # "" =>
        /\ Len(calls) >= 1
        /\ img.Encrypted = FALSE =>
               calls[1] = <<"snapshot", SnapshotFlag, arg[1], img.Path>>
        /\ img.Encrypted = TRUE =>
               /\ Len(calls[1]) = 7
               /\ SubSeq(calls[1], 1, 2) = <<"snapshot", "--object">>
               /\ calls[1][3] = "secret,id=sec0,data=" \o img.Secret
               /\ SubSeq(calls[1], 4, 6) = <<"--image-opts", SnapshotFlag, arg[1]>>
               /\ calls[1][7] =
                      "encrypt.format=luks,encrypt.key-secret=sec0,file.filename="
                          \o img.Path

\* a snapshot is restored through a descriptor that holds a secret and
\* whose Encrypted flag is false: the invocation is the plain one
C11_Witness ==
    /\ op = "RestoreSnapshot"
    /\ img.Encrypted = FALSE
    /\ img.Secret = "secret1"
    /\ err = Nil
    /\ Len(calls[1]) = 4

\* C12: OpenEncryptedImage with a non-empty secret, on an existing image
\* whose parsed document reports encrypted=false or leaves the field out,
\* returns the "image is not encrypted" error.
C12_SecretOnPlainImageRejected ==
    (/\ op = "OpenEncryptedImage"
     /\ arg[2] # ""
     /\ InfoParsed
     /\ info.doc.encrypted # "true") => err = "image is not encrypted"

\* what the code does there: retreiveInfos has set Encrypted to true
\* because of the secret, so the test of Encrypted passes and the image is
\* returned without an error
C12_Witness ==
    /\ op = "OpenEncryptedImage"
    /\ arg[2] = "secret1"
    /\ InfoParsed
    /\ info.doc.encrypted = "absent"
    /\ img.Encrypted = TRUE
    /\ err = Nil

\* C13: when Create renders an invocation for a descriptor whose Secret is
\* non-empty, however the descriptor was made, the invocation carries the
\* secret object and the option encrypt.key-secret=sec0.
C13_SecretSetCreateEncrypts ==
    (op = "Create" /\ img.Secret # "" /\ calls # <<>>) =>
        /\ \E k \in 1..(Len(CreateCall) - 1) :
               /\ CreateCall[k] = "--object"
               /\ CreateCall[k + 1] = "secret,id=sec0,data=" \o img.Secret
        /\ \E k \in 1..(Len(CreateCall) - 1) :
               /\ CreateCall[k] = "-o"
               /\ CreateCall[k + 1] = "encrypt.key-secret=sec0"

\* what the code does: an image of NewImage to which a secret was assigned
\* has Encrypted false, and Create renders the plain invocation
C13_Witness ==
    /\ op = "Create"
    /\ img.Secret = "secret1"
    /\ img.Encrypted = FALSE
    /\ err = Nil
    /\ CreateCall = <<"create", "-f", img.Format, "-o", "preallocation=metadata",
                      img.Path, FormatUint(img.Size)>>

\* the invocations of a list that change the file: create, snapshot, rebase
Mutating(cs) == {k \in DOMAIN cs : cs[k][1] \in {"create", "snapshot", "rebase"}}

\* what a step of each operation does with the tool's answers; the step
\* is the one of the arguments that the operation records (CreateSnapshot
\* records the answer to its 'info' when it asked for it)
C14_Step ==
    /\ op' = "Create" =>
           \A t \in ToolAnswers : CreateStep(t) =>
               /\ Len(calls') <= 1
               /\ (calls' # <<>> /\ t.rc # 0) => err' # Nil
    /\ op' = "OpenImage" =>
           \A t \in AnyInfoAnswers(FileAt(arg'[1])) : OpenImageStep(arg'[1], t) =>
               /\ Len(calls') <= 1
               /\ Mutating(calls') = {}
               /\ t.rc # 0 => err' # Nil
    /\ op' = "OpenEncryptedImage" =>
           \A t \in AnyInfoAnswers(FileAt(arg'[1])) :
               OpenEncryptedImageStep(arg'[1], arg'[2], t) =>
                   /\ Len(calls') <= 1
                   /\ Mutating(calls') = {}
                   /\ t.rc # 0 => err' # Nil
    /\ op' = "Snapshots" =>
           \A t \in AnyInfoAnswers(FileAt(img.Path)) : SnapshotsStep(t) =>
               /\ Len(calls') = 1
               /\ Mutating(calls') = {}
               /\ t.rc # 0 => err' # Nil
    /\ op' = "CreateSnapshot" =>
           \A id \in OpsIds, t1 \in ToolAnswers :
               \A t2 \in IF info' # None THEN {info'}
                          ELSE AnyInfoAnswers(FileAt(img.Path)) :
                   CreateSnapshotStep(arg'[1], id, t1, t2) =>
                       /\ Mutating(calls') = {1}
                       /\ t1.rc # 0 => (Len(calls') = 1 /\ err' # Nil)
                       /\ t1.rc = 0 =>
                              /\ Len(calls') = 2
                              /\ calls'[2][1] = "info"
                              /\ t2.rc # 0 => err' # Nil
    /\ op' = "RestoreSnapshot" =>
           \A t \in ToolAnswers : RestoreSnapshotStep(arg'[1], t) =>
               (Len(calls') = 1 /\ (t.rc # 0 => err' # Nil))
    /\ op' = "DeleteSnapshot" =>
           \A t \in ToolAnswers : DeleteSnapshotStep(arg'[1], t) =>
               (Len(calls') = 1 /\ (t.rc # 0 => err' # Nil))
    /\ op' = "Rebase" =>
           \A t \in ToolAnswers : RebaseStep(arg'[1], t) =>
               (Len(calls') = 1 /\ (t.rc # 0 => err' # Nil))

\* C14: no operation retries.  Whenever Create, CreateSnapshot,
\* RestoreSnapshot, DeleteSnapshot, Rebase, Snapshots or an Open operation
\* runs, an invocation that fails is the last it issues and the operation
\* returns an error; every operation issues at most one invocation, except
\* CreateSnapshot, which issues one 'snapshot -c' and, when that succeeds,
\* one 'info'.
C14_NoRetry == [][C14_Step]_vars

\* 'snapshot -c' failed: CreateSnapshot returned the error after that one
\* invocation, without asking for the list
C14_Witness ==
    /\ op = "CreateSnapshot"
    /\ Len(calls) = 1
    /\ calls[1][1] = "snapshot"
    /\ err = "'qemu-img snapshot' output: " \o oneLine(ToolFailed.out)
    /\ info = None

\* C15: Snapshots() never answers from the list the image holds.  Every
\* call asks the tool once, with 'info' on the image's path; when it
\* succeeds it returns the snapshots the file has at that moment, without
\* those whose id is no integer, whatever list an earlier Open stored in
\* the image and whatever was created or deleted since; when the query
\* fails it returns an error and no list.
C15_SnapshotsAlwaysRequeried ==
    op = "Snapshots" =>
        /\ calls = <<<<"info", "--output=json", img.Path>>>>
        /\ err = Nil => ret = ListedSnapshots(FileAt(img.Path).snaps)
        /\ err # Nil => ret = <<>>
        /\ (info.rc # 0 \/ ~info.doc.valid) => err # Nil

\* the image was opened when the file had a snapshot, the snapshot was
\* deleted, and Snapshots() returns the empty list of the file, not the
\* list the image holds
C15_Witness ==
    /\ op = "Snapshots"
    /\ err = Nil
    /\ img.snapshots # <<>>
    /\ FileAt(img.Path).snaps = <<>>
    /\ ret = <<>>

\* what a Rebase step does to the image and which invocation it issues
C16_Step ==
    op' = "Rebase" =>
        /\ calls' = <<<<"rebase", "-b", arg'[1], img.Path>>>>
        /\ img'.BackingFile = arg'[1]
        /\ \A f \in DOMAIN img \ {"BackingFile"} : img'[f] = img[f]
        /\ DOMAIN img' = DOMAIN img

\* C16: Rebase(newBackingPath) issues exactly rebase -b newBackingPath
\* path, for encrypted and plain images alike, and when it returns, with
\* or without an error of the tool, BackingFile is newBackingPath and
\* every other field of the image is as it was.
C16_RebaseRecordsBackingFile == [][C16_Step]_vars

\* the tool failed on the rebase of an encrypted image: the error is
\* returned and the image holds the new backing file
C16_Witness ==
    /\ op = "Rebase"
    /\ img.Encrypted = TRUE
    /\ err = "'qemu-img rebase' output: " \o oneLine(ToolFailed.out)
    /\ img.BackingFile = "base.qcow2"
    /\ arg = <<"base.qcow2">>
    /\ calls = <<<<"rebase", "-b", "base.qcow2", img.Path>>>>

====
